---- MODULE Spec2Model ----
(***************************************************************************)
(* Model of django_paddle_billing/admin.py: the admin classes registered   *)
(* for the Paddle billing models, their has_change_permission hooks and    *)
(* the display helpers that unwrap each record's JSON "data" payload.      *)
(*                                                                         *)
(* Python values are tagged records.  A str is a sequence of one-character *)
(* strings, a float is kept exactly as a count of hundredths (every float  *)
(* the module computes is an integer divided by 100), a dict is a function *)
(* from its keys, and an exception leaving an expression is Raise(e).      *)
(***************************************************************************)
EXTENDS Integers, Sequences, FiniteSets, TLC

VARIABLES INSTALLED_APPS, ADMIN_READONLY, ADMIN_JSON_EDITOR_WIDGET,
          loaded, ModelAdmin, StackedInline, TabularInline, formfield_overrides,
          model, obj, Product_objects, ret, first

vars == <<INSTALLED_APPS, ADMIN_READONLY, ADMIN_JSON_EDITOR_WIDGET,
          loaded, ModelAdmin, StackedInline, TabularInline, formfield_overrides,
          model, obj, Product_objects, ret, first>>

settingsVars == <<INSTALLED_APPS, ADMIN_READONLY, ADMIN_JSON_EDITOR_WIDGET>>
moduleVars == <<loaded, ModelAdmin, StackedInline, TabularInline, formfield_overrides>>
dbVars == <<model, obj, Product_objects>>

----------------------------------------------------------------------------
(* Bounds *)

MaxPayments == 2
MaxItems == 2
MaxProducts == 2

----------------------------------------------------------------------------
(* Python values *)

PyNone == [t |-> "None"]
PyBool(b) == [t |-> "bool", b |-> b]
PyInt(i) == [t |-> "int", i |-> i]
PyFloat(c) == [t |-> "float", c |-> c]
PyStr(s) == [t |-> "str", s |-> s]
PyList(l) == [t |-> "list", l |-> l]
PyDict(d) == [t |-> "dict", d |-> d]
Raise(e) == [t |-> "raise", exc |-> e]

EmptyStr == PyStr(<< >>)
EmptyMap == [k \in {} |-> PyNone]

IsRaise(v) == v.t = "raise"

\* bool(v): the truth value the `if obj and obj.data and ...` tests use.
Truthy(v) ==
    CASE v.t = "None" -> FALSE
      [] v.t = "bool" -> v.b
      [] v.t = "int" -> v.i # 0
      [] v.t = "float" -> v.c # 0
      [] v.t = "str" -> Len(v.s) > 0
      [] v.t = "list" -> Len(v.l) > 0
      [] v.t = "dict" -> DOMAIN v.d # {}
      [] OTHER -> TRUE

\* v[k] with a str key, as in obj.data["details"].
GetItem(v, k) ==
    IF IsRaise(v) THEN v
    ELSE IF v.t = "dict" THEN (IF k \in DOMAIN v.d THEN v.d[k] ELSE Raise("KeyError"))
    ELSE Raise("TypeError")

\* v[-1]: the last element instead of the first.
GetLast(v) ==
    IF IsRaise(v) THEN v
    ELSE IF v.t = "list" THEN (IF Len(v.l) > 0 THEN v.l[Len(v.l)] ELSE Raise("IndexError"))
    ELSE IF v.t = "str" THEN (IF Len(v.s) > 0 THEN PyStr(<<v.s[Len(v.s)]>>) ELSE Raise("IndexError"))
    ELSE IF v.t = "dict" THEN Raise("KeyError")
    ELSE Raise("TypeError")

\* v[0], as in obj.data["payments"][0].
GetFirst(v) ==
    IF IsRaise(v) THEN v
    ELSE IF v.t = "list" THEN (IF Len(v.l) > 0 THEN v.l[1] ELSE Raise("IndexError"))
    ELSE IF v.t = "str" THEN (IF Len(v.s) > 0 THEN PyStr(<<v.s[1]>>) ELSE Raise("IndexError"))
    ELSE IF v.t = "dict" THEN Raise("KeyError")
    ELSE Raise("TypeError")

\* v.get(k, default), as in obj.data.get("status", "").
Get(v, k, default) ==
    IF IsRaise(v) THEN v
    ELSE IF v.t = "dict" THEN (IF k \in DOMAIN v.d THEN v.d[k] ELSE default)
    ELSE Raise("AttributeError")

----------------------------------------------------------------------------
(* int(), true division by 100, str() *)

Digits == <<"0", "1", "2", "3", "4", "5", "6", "7", "8", "9">>

IsDigit(c) == \E i \in 1..10 : Digits[i] = c
DigitVal(c) == (CHOOSE i \in 1..10 : Digits[i] = c) - 1

RECURSIVE StripLeft(_)
StripLeft(s) == IF Len(s) > 0 /\ Head(s) = " " THEN StripLeft(Tail(s)) ELSE s

RECURSIVE StripRight(_)
StripRight(s) ==
    IF Len(s) > 0 /\ s[Len(s)] = " " THEN StripRight(SubSeq(s, 1, Len(s) - 1)) ELSE s

\* The digits part of an integer literal: digits, with single underscores
\* allowed between two digits.
IsDigitRun(s) ==
    /\ Len(s) > 0
    /\ \A i \in 1..Len(s) :
          \/ IsDigit(s[i])
          \/ /\ s[i] = "_"
             /\ i > 1 /\ i < Len(s)
             /\ IsDigit(s[i - 1]) /\ IsDigit(s[i + 1])

RECURSIVE DigitRunVal(_, _)
DigitRunVal(s, acc) ==
    IF Len(s) = 0 THEN acc
    ELSE IF Head(s) = "_" THEN DigitRunVal(Tail(s), acc)
    ELSE DigitRunVal(Tail(s), acc * 10 + DigitVal(Head(s)))

\* int(s) for a str s: surrounding whitespace is ignored, one sign is allowed.
IntOfStr(s) ==
    LET body == StripRight(StripLeft(s))
        signed == Len(body) > 0 /\ body[1] \in {"+", "-"}
        run == IF signed THEN Tail(body) ELSE body
    IN IF IsDigitRun(run)
       THEN PyInt(IF signed /\ body[1] = "-" THEN 0 - DigitRunVal(run, 0) ELSE DigitRunVal(run, 0))
       ELSE Raise("ValueError")

\* Truncation toward zero of c hundredths.
Trunc(c) == IF c >= 0 THEN c \div 100 ELSE 0 - ((0 - c) \div 100)

\* int(v)
int(v) ==
    IF IsRaise(v) THEN v
    ELSE CASE v.t = "int" -> v
           [] v.t = "bool" -> PyInt(IF v.b THEN 1 ELSE 0)
           [] v.t = "float" -> PyInt(Trunc(v.c))
           [] v.t = "str" -> IntOfStr(v.s)
           [] OTHER -> Raise("TypeError")

\* v // 100: floor division, which keeps an int and drops the hundredths.
FloorDiv100(v) == IF IsRaise(v) THEN v ELSE PyInt(v.i \div 100)

\* v / 100 for an int v: the float of v hundredths.
TrueDiv100(v) == IF IsRaise(v) THEN v ELSE PyFloat(v.i)

RECURSIVE NatChars(_)
NatChars(n) == IF n < 10 THEN <<Digits[n + 1]>> ELSE NatChars(n \div 10) \o <<Digits[(n % 10) + 1]>>

IntChars(i) == IF i < 0 THEN <<"-">> \o NatChars(0 - i) ELSE NatChars(i)

\* repr of the float c / 100: shortest decimal, at least one fractional digit.
FloatChars(c) ==
    LET a == IF c < 0 THEN 0 - c ELSE c
        frac == a % 100
        fracChars == IF frac % 10 = 0 THEN <<Digits[(frac \div 10) + 1]>>
                     ELSE <<Digits[(frac \div 10) + 1], Digits[(frac % 10) + 1]>>
    IN (IF c < 0 THEN <<"-">> ELSE << >>) \o NatChars(a \div 100) \o <<".">> \o fracChars

\* str(v), as an f-string replacement field formats a scalar.
str(v) ==
    CASE v.t = "str" -> v.s
      [] v.t = "int" -> IntChars(v.i)
      [] v.t = "float" -> FloatChars(v.c)
      [] v.t = "bool" -> IF v.b THEN <<"T", "r", "u", "e">> ELSE <<"F", "a", "l", "s", "e">>
      [] v.t = "None" -> <<"N", "o", "n", "e">>

\* f'{a} {b}': a is evaluated first, so its exception wins.
FormatPair(a, b) ==
    IF IsRaise(a) THEN a
    ELSE IF IsRaise(b) THEN b
    ELSE PyStr(str(a) \o <<" ">> \o str(b))

\* A try/except Exception body: any exception becomes "".
ExceptEmpty(v) == IF IsRaise(v) THEN EmptyStr ELSE v

----------------------------------------------------------------------------
(* Records: a model instance is None or an object with its JSON data and   *)
(* its customer foreign key (None when unset or when the model has none).  *)

Record(data, customer) == [t |-> "obj", data |-> data, customer |-> customer]
CustomerRow(email) == [t |-> "obj", email |-> email]

----------------------------------------------------------------------------
(* has_change_permission hooks *)

AddressAdmin_has_change_permission(request, o) == PyBool(ADMIN_READONLY)
BusinessAdmin_has_change_permission(request, o) == PyBool(~ADMIN_READONLY)
ProductAdmin_has_change_permission(request, o) == PyBool(~ADMIN_READONLY)
PriceAdmin_has_change_permission(request, o) == PyBool(~ADMIN_READONLY)
SubscriptionAdmin_has_change_permission(request, o) == PyBool(~ADMIN_READONLY)
CustomerAdmin_has_change_permission(request, o) == PyBool(~ADMIN_READONLY)
TransactionAdmin_has_change_permission(request, o) == PyBool(~ADMIN_READONLY)

----------------------------------------------------------------------------
(* AddressAdmin display helpers *)

AddressAdmin_customer_email(o) ==
    IF Truthy(o) /\ Truthy(o.customer) THEN o.customer.email ELSE EmptyStr

AddressAdmin_postal_code(o) ==
    IF Truthy(o) /\ Truthy(o.data) THEN Get(o.data, "postal_code", EmptyStr) ELSE EmptyStr

AddressAdmin_status(o) ==
    IF Truthy(o) /\ Truthy(o.data) THEN Get(o.data, "status", EmptyStr) ELSE EmptyStr

----------------------------------------------------------------------------
(* PriceAdmin display helpers.  description, name and status have no       *)
(* trailing return: falling off the end of the function returns None.      *)

PriceAdmin_billing_cycle(o) ==
    IF Truthy(o) /\ Truthy(o.data)
    THEN LET sub == Get(o.data, "billing_cycle", PyNone)
         IN IF IsRaise(sub) THEN sub
            ELSE IF Truthy(sub)
            THEN FormatPair(GetItem(GetItem(o.data, "billing_cycle"), "frequency"),
                            GetItem(GetItem(o.data, "billing_cycle"), "interval"))
            ELSE EmptyStr
    ELSE EmptyStr

PriceAdmin_description(o) ==
    IF Truthy(o) /\ Truthy(o.data) THEN Get(o.data, "description", EmptyStr) ELSE PyNone

PriceAdmin_name(o) ==
    IF Truthy(o) /\ Truthy(o.data) THEN Get(o.data, "name", EmptyStr) ELSE PyNone

PriceAdmin_status(o) ==
    IF Truthy(o) /\ Truthy(o.data) THEN Get(o.data, "status", EmptyStr) ELSE PyNone

\* trial_period tested, billing_cycle formatted: the body copied from
\* billing_cycle with only the test renamed.
PriceAdmin_trial_period_copied(o) ==
    IF Truthy(o) /\ Truthy(o.data)
    THEN LET sub == Get(o.data, "trial_period", PyNone)
         IN IF IsRaise(sub) THEN sub
            ELSE IF Truthy(sub)
            THEN FormatPair(GetItem(GetItem(o.data, "billing_cycle"), "frequency"),
                            GetItem(GetItem(o.data, "billing_cycle"), "interval"))
            ELSE EmptyStr
    ELSE EmptyStr

PriceAdmin_trial_period(o) ==
    IF Truthy(o) /\ Truthy(o.data)
    THEN LET sub == Get(o.data, "trial_period", PyNone)
         IN IF IsRaise(sub) THEN sub
            ELSE IF Truthy(sub)
            THEN FormatPair(GetItem(GetItem(o.data, "trial_period"), "frequency"),
                            GetItem(GetItem(o.data, "trial_period"), "interval"))
            ELSE EmptyStr
    ELSE EmptyStr

\* The amount shown in minor units: the division by 100 left out.
PriceAdmin_unit_price_minor(o) ==
    IF Truthy(o) /\ Truthy(o.data)
    THEN LET sub == Get(o.data, "unit_price", PyNone)
         IN IF IsRaise(sub) THEN sub
            ELSE IF Truthy(sub)
            THEN FormatPair(int(GetItem(GetItem(o.data, "unit_price"), "amount")),
                            GetItem(GetItem(o.data, "unit_price"), "currency_code"))
            ELSE EmptyStr
    ELSE EmptyStr

PriceAdmin_unit_price(o) ==
    IF Truthy(o) /\ Truthy(o.data)
    THEN LET sub == Get(o.data, "unit_price", PyNone)
         IN IF IsRaise(sub) THEN sub
            ELSE IF Truthy(sub)
            THEN FormatPair(TrueDiv100(int(GetItem(GetItem(o.data, "unit_price"), "amount"))),
                            GetItem(GetItem(o.data, "unit_price"), "currency_code"))
            ELSE EmptyStr
    ELSE EmptyStr

----------------------------------------------------------------------------
(* CustomerAdmin display helper (no trailing return either) *)

CustomerAdmin_status(o) ==
    IF Truthy(o) /\ Truthy(o.data) THEN Get(o.data, "status", EmptyStr) ELSE PyNone

----------------------------------------------------------------------------
(* TransactionAdmin display helpers *)

TransactionAdmin_customer_email(o) ==
    IF Truthy(o) /\ Truthy(o.customer) THEN o.customer.email ELSE EmptyStr

TransactionAdmin_payment_amount(o) ==
    IF Truthy(o) /\ Truthy(o.data)
    THEN ExceptEmpty(TrueDiv100(int(GetItem(GetItem(GetItem(o.data, "details"), "totals"), "total"))))
    ELSE EmptyStr

TransactionAdmin_payment_method(o) ==
    IF Truthy(o) /\ Truthy(o.data)
    THEN ExceptEmpty(FormatPair(
            GetItem(GetItem(GetItem(GetFirst(GetItem(o.data, "payments")), "method_details"), "card"), "type"),
            GetItem(GetItem(GetItem(GetFirst(GetItem(o.data, "payments")), "method_details"), "card"), "last4")))
    ELSE EmptyStr

TransactionAdmin_date_paid(o) ==
    IF Truthy(o) /\ Truthy(o.data)
    THEN ExceptEmpty(GetItem(GetFirst(GetItem(o.data, "payments")), "captured_at"))
    ELSE EmptyStr

\* [item["price"]["product_id"] for item in l]: the first failing item raises.
RECURSIVE ProductIdsOf(_)
ProductIdsOf(l) ==
    IF Len(l) = 0 THEN PyList(<< >>)
    ELSE LET id == GetItem(GetItem(Head(l), "price"), "product_id")
             rest == ProductIdsOf(Tail(l))
         IN IF IsRaise(id) THEN id
            ELSE IF IsRaise(rest) THEN rest
            ELSE PyList(<<id>> \o rest.l)

\* The comprehension over whatever data.get("items", []) returned: a list is
\* walked; a str yields its characters and a dict its keys, all of them strs
\* that cannot be subscripted by "price"; anything else is not iterable.
ItemProductIds(items) ==
    IF IsRaise(items) THEN items
    ELSE CASE items.t = "list" -> ProductIdsOf(items.l)
           [] items.t = "str" -> IF Len(items.s) = 0 THEN PyList(<< >>) ELSE Raise("TypeError")
           [] items.t = "dict" -> IF DOMAIN items.d = {} THEN PyList(<< >>) ELSE Raise("TypeError")
           [] OTHER -> Raise("TypeError")

\* Product.objects.filter(id__in=ids): the stored rows whose id is listed,
\* each once, in the order the table returns them.
FilterIdIn(table, ids) ==
    SelectSeq(table, LAMBDA p : \E i \in 1..Len(ids) : ids[i] = p.id)

\* ", ".join(names)
RECURSIVE Join(_)
Join(names) ==
    IF Len(names) = 0 THEN << >>
    ELSE IF Len(names) = 1 THEN names[1].s
    ELSE names[1].s \o <<",", " ">> \o Join(Tail(names))

ProductNames(table, ids) ==
    IF IsRaise(ids) THEN ids
    ELSE LET products == FilterIdIn(table, ids.l)
         IN PyStr(Join([i \in 1..Len(products) |-> products[i].name]))

TransactionAdmin_products(o, table) ==
    IF Truthy(o) /\ Truthy(o.data)
    THEN ProductNames(table, ItemProductIds(Get(o.data, "items", PyList(<< >>))))
    ELSE EmptyStr

TransactionAdmin_status(o) ==
    IF Truthy(o) /\ Truthy(o.data) THEN Get(o.data, "status", EmptyStr) ELSE EmptyStr

----------------------------------------------------------------------------
(* The records and settings the admin is run on *)

Models == {"Address", "Business", "Product", "Price", "Subscription", "Customer", "Transaction"}
AdminOf(m) == m \o "Admin"

SeqsUpTo(S, n) == UNION {[1..k -> S] : k \in 0..n}

\* A dict that has key k only when v is not Absent.
Absent == [t |-> "absent"]
Opt(k, v) == IF v = Absent THEN EmptyMap ELSE (k :> v)

S_active == PyStr(<<"a", "c", "t", "i", "v", "e">>)
S_month == PyStr(<<"m", "o", "n", "t", "h">>)
S_day == PyStr(<<"d", "a", "y">>)
S_USD == PyStr(<<"U", "S", "D">>)
S_EUR == PyStr(<<"E", "U", "R">>)
S_visa == PyStr(<<"v", "i", "s", "a">>)
S_amex == PyStr(<<"a", "m", "e", "x">>)
S_4242 == PyStr(<<"4", "2", "4", "2">>)
S_0005 == PyStr(<<"0", "0", "0", "5">>)
S_2024 == PyStr(<<"2", "0", "2", "4">>)
S_2025 == PyStr(<<"2", "0", "2", "5">>)
S_email == PyStr(<<"a", "@", "b">>)
S_zip == PyStr(<<"9", "0", "2", "1", "0">>)
S_1999 == PyStr(<<"1", "9", "9", "9">>)

Customers == {PyNone, CustomerRow(S_email)}

BillingCycles ==
    { Absent, PyNone, PyDict(EmptyMap),
      PyDict(("frequency" :> PyInt(1)) @@ ("interval" :> S_month)),
      PyDict("interval" :> S_month),
      PyDict("frequency" :> PyInt(1)) }

TrialPeriods ==
    { Absent,
      PyDict(("frequency" :> PyInt(14)) @@ ("interval" :> S_day)),
      PyDict("frequency" :> PyInt(14)) }

Amounts ==
    { S_1999, PyStr(<<"2", "0", "0", "0">>), PyStr(<<"5">>), PyStr(<<"-", "1", "9", "9", "0">>),
      PyInt(1999), PyInt(120), PyStr(<<"a", "b", "c">>), PyStr(<<"1", "2", ".", "5">>), PyNone }

UnitPrices ==
    { Absent, PyNone, PyDict(EmptyMap), PyDict("amount" :> S_1999), PyDict("currency_code" :> S_USD) }
    \cup { PyDict(("amount" :> a) @@ ("currency_code" :> c)) : a \in Amounts, c \in {S_USD} }
    \cup { PyDict(("amount" :> PyInt(120)) @@ ("currency_code" :> S_EUR)) }

PriceDatas ==
    { PyNone, PyDict(EmptyMap), PyList(<<PyInt(1)>>), PyDict("id" :> S_1999),
      PyDict(("name" :> S_month) @@ ("description" :> S_day) @@ ("status" :> S_active)) }
    \cup { PyDict(Opt("billing_cycle", b) @@ Opt("trial_period", t) @@ Opt("unit_price", u)
                  @@ ("status" :> S_active))
           : b \in BillingCycles, t \in TrialPeriods, u \in UnitPrices }

AddressDatas ==
    { PyNone, PyDict(EmptyMap), PyList(<<PyInt(1)>>),
      PyDict(("postal_code" :> S_zip) @@ ("status" :> S_active)),
      PyDict("status" :> S_active),
      PyDict("postal_code" :> PyNone) }

CustomerDatas ==
    { PyNone, PyDict(EmptyMap), PyDict("status" :> S_active), PyDict("name" :> S_month) }

Totals ==
    { Absent, PyNone, S_1999,
      PyStr(<<"0">>), PyStr(<<"5">>), PyStr(<<"-", "1", "9", "9", "9">>), PyStr(<<"2", "0", "0", "0">>),
      PyStr(<<" ", "4", "2", " ">>), PyStr(<<"1", "_", "0", "0", "0">>), PyStr(<<"+", "7">>),
      PyStr(<<"1", "2", ".", "5">>), PyStr(<<"a", "b", "c">>), PyStr(<<"_", "1">>), EmptyStr,
      PyInt(1999), PyInt(0 - 5), PyInt(0),
      PyFloat(1250), PyFloat(0 - 1250), PyBool(TRUE),
      PyList(<< >>), PyDict(EmptyMap) }

TotalsDatas ==
    { PyDict("details" :> PyDict("totals" :> PyDict(Opt("total", x)) )) : x \in Totals }
    \cup { PyDict("details" :> PyDict(EmptyMap)), PyDict("details" :> PyNone),
           PyDict("details" :> S_1999), PyDict("details" :> PyDict("totals" :> PyNone)) }

Card(type, last4) == PyDict("card" :> PyDict(("type" :> type) @@ ("last4" :> last4)))

PaymentEntries ==
    { PyDict(("method_details" :> Card(S_visa, S_4242)) @@ ("captured_at" :> S_2024)),
      PyDict(("method_details" :> Card(S_amex, S_0005)) @@ ("captured_at" :> S_2025)),
      PyDict(("method_details" :> PyDict(EmptyMap)) @@ ("captured_at" :> S_2024)),
      PyDict("method_details" :> Card(S_visa, S_4242)),
      PyDict(("method_details" :> PyDict("card" :> PyDict("type" :> S_visa))) @@ ("captured_at" :> PyNone)) }

PaymentsDatas ==
    { PyDict(("payments" :> PyList(l)) @@ ("status" :> S_active)) : l \in SeqsUpTo(PaymentEntries, MaxPayments) }
    \cup { PyDict("payments" :> PyNone), PyDict("payments" :> S_visa), PyDict("status" :> S_active) }

ProductId(i) == PyStr(<<"p", "r", "o", "_">> \o NatChars(i))
ProductName(i) == PyStr(<<"P">> \o NatChars(i))
ProductRow(i) == [t |-> "obj", id |-> ProductId(i), name |-> ProductName(i)]

\* Ids 1..MaxProducts may be stored; id 0 never is.
ItemEntries ==
    { PyDict("price" :> PyDict("product_id" :> ProductId(i))) : i \in 0..MaxProducts }
    \cup { PyDict(EmptyMap), PyDict("price" :> PyDict(EmptyMap)) }

ItemsDatas ==
    { PyDict(("items" :> PyList(l)) @@ ("status" :> S_active)) : l \in SeqsUpTo(ItemEntries, MaxItems) }
    \cup { PyDict("items" :> PyNone), PyDict("items" :> PyDict(EmptyMap)), PyList(<<PyInt(1)>>) }

\* The Product table: any subset of the rows, in ascending or descending id order.
RECURSIVE Ascending(_)
Ascending(S) ==
    IF S = {} THEN << >>
    ELSE LET m == CHOOSE x \in S : \A y \in S : x <= y
         IN <<ProductRow(m)>> \o Ascending(S \ {m})

Reverse(q) == [i \in 1..Len(q) |-> q[Len(q) + 1 - i]]

ProductTables ==
    { Ascending(S) : S \in SUBSET (1..MaxProducts) } \cup { Reverse(Ascending(1..MaxProducts)) }

DefaultTable == Ascending(1..MaxProducts)

Scenario(m, o, table) == [model |-> m, obj |-> o, table |-> table]

Scenarios ==
    { Scenario(m, PyNone, DefaultTable) : m \in Models }
    \cup { Scenario(m, Record(PyDict(EmptyMap), PyNone), DefaultTable) : m \in {"Business", "Product", "Subscription"} }
    \cup { Scenario("Address", Record(d, c), DefaultTable) : d \in AddressDatas, c \in Customers }
    \cup { Scenario("Customer", Record(d, PyNone), DefaultTable) : d \in CustomerDatas }
    \cup { Scenario("Price", Record(d, PyNone), DefaultTable) : d \in PriceDatas }
    \cup { Scenario("Transaction", Record(d, c), DefaultTable) : d \in {PyNone, PyDict(EmptyMap)}, c \in Customers }
    \cup { Scenario("Transaction", Record(d, CustomerRow(S_email)), DefaultTable) : d \in TotalsDatas \cup PaymentsDatas }
    \cup { Scenario("Transaction", Record(d, PyNone), table) : d \in ItemsDatas, table \in ProductTables }

----------------------------------------------------------------------------
(* Settings, module import and the state machine *)

AdminClasses == {AdminOf(m) : m \in Models}
Requests == {"GET", "POST"}
Widgets == {"JSONEditorWidget", "UnfoldJSONWidget"}
AppLists == {{"django.contrib.admin"}, {"django.contrib.admin", "unfold"}}

NoCall == [admin |-> "", helper |-> "", value |-> PyNone]

\* TabularInline imported from django.contrib.admin whatever is installed.
ImportedFrom_mixed(name) ==
    (IF "unfold" \in INSTALLED_APPS /\ name # "TabularInline"
     THEN "unfold.admin" ELSE "django.contrib.admin") \o "." \o name

\* The package the `if "unfold" in settings.INSTALLED_APPS` import takes a
\* base class from.
ImportedFrom(name) ==
    (IF "unfold" \in INSTALLED_APPS THEN "unfold.admin" ELSE "django.contrib.admin") \o "." \o name

\* formfield_overrides of one admin class.
FormfieldOverrides(cls) == "JSONField" :> ("widget" :> ADMIN_JSON_EDITOR_WIDGET)

Init ==
    /\ INSTALLED_APPS \in AppLists
    /\ ADMIN_READONLY \in BOOLEAN
    /\ ADMIN_JSON_EDITOR_WIDGET \in Widgets
    /\ loaded = FALSE
    /\ ModelAdmin = ""
    /\ StackedInline = ""
    /\ TabularInline = ""
    /\ formfield_overrides = << >>
    /\ \E sc \in Scenarios :
          /\ model = sc.model
          /\ obj = sc.obj
          /\ Product_objects = sc.table
    /\ ret = NoCall
    /\ first = NoCall

\* Executing the module body: the conditional import and the class statements.
ImportModule ==
    /\ ~loaded
    /\ loaded' = TRUE
    /\ ModelAdmin' = ImportedFrom("ModelAdmin")
    /\ StackedInline' = ImportedFrom("StackedInline")
    /\ TabularInline' = ImportedFrom("TabularInline")
    /\ formfield_overrides' = [cls \in AdminClasses |-> FormfieldOverrides(cls)]
    /\ UNCHANGED <<settingsVars, dbVars, ret, first>>

\* The admin of the model being rendered calls one of its methods; the
\* result is what the changelist shows.
Call(admin, helper, value) ==
    /\ loaded
    /\ AdminOf(model) = admin
    /\ ret' = [admin |-> admin, helper |-> helper, value |-> value]
    /\ first' = IF first.helper = "" THEN ret' ELSE first
    /\ UNCHANGED <<settingsVars, moduleVars>>

AddressAdmin_HasChangePermission ==
    /\ \E request \in Requests, o \in {obj, PyNone} :
          Call("AddressAdmin", "has_change_permission", AddressAdmin_has_change_permission(request, o))
    /\ UNCHANGED dbVars

BusinessAdmin_HasChangePermission ==
    /\ \E request \in Requests, o \in {obj, PyNone} :
          Call("BusinessAdmin", "has_change_permission", BusinessAdmin_has_change_permission(request, o))
    /\ UNCHANGED dbVars

ProductAdmin_HasChangePermission ==
    /\ \E request \in Requests, o \in {obj, PyNone} :
          Call("ProductAdmin", "has_change_permission", ProductAdmin_has_change_permission(request, o))
    /\ UNCHANGED dbVars

PriceAdmin_HasChangePermission ==
    /\ \E request \in Requests, o \in {obj, PyNone} :
          Call("PriceAdmin", "has_change_permission", PriceAdmin_has_change_permission(request, o))
    /\ UNCHANGED dbVars

SubscriptionAdmin_HasChangePermission ==
    /\ \E request \in Requests, o \in {obj, PyNone} :
          Call("SubscriptionAdmin", "has_change_permission", SubscriptionAdmin_has_change_permission(request, o))
    /\ UNCHANGED dbVars

CustomerAdmin_HasChangePermission ==
    /\ \E request \in Requests, o \in {obj, PyNone} :
          Call("CustomerAdmin", "has_change_permission", CustomerAdmin_has_change_permission(request, o))
    /\ UNCHANGED dbVars

TransactionAdmin_HasChangePermission ==
    /\ \E request \in Requests, o \in {obj, PyNone} :
          Call("TransactionAdmin", "has_change_permission", TransactionAdmin_has_change_permission(request, o))
    /\ UNCHANGED dbVars

Show_AddressAdmin_customer_email ==
    /\ Call("AddressAdmin", "customer_email", AddressAdmin_customer_email(obj))
    /\ UNCHANGED dbVars

Show_AddressAdmin_postal_code ==
    /\ Call("AddressAdmin", "postal_code", AddressAdmin_postal_code(obj))
    /\ UNCHANGED dbVars

Show_AddressAdmin_status ==
    /\ Call("AddressAdmin", "status", AddressAdmin_status(obj))
    /\ UNCHANGED dbVars

Show_PriceAdmin_billing_cycle ==
    /\ Call("PriceAdmin", "billing_cycle", PriceAdmin_billing_cycle(obj))
    /\ UNCHANGED dbVars

Show_PriceAdmin_description ==
    /\ Call("PriceAdmin", "description", PriceAdmin_description(obj))
    /\ UNCHANGED dbVars

Show_PriceAdmin_name ==
    /\ Call("PriceAdmin", "name", PriceAdmin_name(obj))
    /\ UNCHANGED dbVars

Show_PriceAdmin_status ==
    /\ Call("PriceAdmin", "status", PriceAdmin_status(obj))
    /\ UNCHANGED dbVars

Show_PriceAdmin_trial_period ==
    /\ Call("PriceAdmin", "trial_period", PriceAdmin_trial_period(obj))
    /\ UNCHANGED dbVars

Show_PriceAdmin_unit_price ==
    /\ Call("PriceAdmin", "unit_price", PriceAdmin_unit_price(obj))
    /\ UNCHANGED dbVars

Show_CustomerAdmin_status ==
    /\ Call("CustomerAdmin", "status", CustomerAdmin_status(obj))
    /\ UNCHANGED dbVars

Show_TransactionAdmin_customer_email ==
    /\ Call("TransactionAdmin", "customer_email", TransactionAdmin_customer_email(obj))
    /\ UNCHANGED dbVars

Show_TransactionAdmin_payment_amount ==
    /\ Call("TransactionAdmin", "payment_amount", TransactionAdmin_payment_amount(obj))
    /\ UNCHANGED dbVars

Show_TransactionAdmin_payment_method ==
    /\ Call("TransactionAdmin", "payment_method", TransactionAdmin_payment_method(obj))
    /\ UNCHANGED dbVars

Show_TransactionAdmin_date_paid ==
    /\ Call("TransactionAdmin", "date_paid", TransactionAdmin_date_paid(obj))
    /\ UNCHANGED dbVars

\* products taking the items out of the payload with data.pop("items", [])
\* instead of reading them with data.get("items", []).
Show_TransactionAdmin_products_pop ==
    /\ Call("TransactionAdmin", "products", TransactionAdmin_products(obj, Product_objects))
    /\ obj' = IF obj.t = "obj" /\ Truthy(obj.data) /\ obj.data.t = "dict"
              THEN [obj EXCEPT !.data = PyDict([k \in DOMAIN obj.data.d \ {"items"} |-> obj.data.d[k]])]
              ELSE obj
    /\ UNCHANGED <<model, Product_objects>>

Show_TransactionAdmin_products ==
    /\ Call("TransactionAdmin", "products", TransactionAdmin_products(obj, Product_objects))
    /\ UNCHANGED dbVars

Show_TransactionAdmin_status ==
    /\ Call("TransactionAdmin", "status", TransactionAdmin_status(obj))
    /\ UNCHANGED dbVars

Next ==
    \/ ImportModule
    \/ AddressAdmin_HasChangePermission
    \/ BusinessAdmin_HasChangePermission
    \/ ProductAdmin_HasChangePermission
    \/ PriceAdmin_HasChangePermission
    \/ SubscriptionAdmin_HasChangePermission
    \/ CustomerAdmin_HasChangePermission
    \/ TransactionAdmin_HasChangePermission
    \/ Show_AddressAdmin_customer_email
    \/ Show_AddressAdmin_postal_code
    \/ Show_AddressAdmin_status
    \/ Show_PriceAdmin_billing_cycle
    \/ Show_PriceAdmin_description
    \/ Show_PriceAdmin_name
    \/ Show_PriceAdmin_status
    \/ Show_PriceAdmin_trial_period
    \/ Show_PriceAdmin_unit_price
    \/ Show_CustomerAdmin_status
    \/ Show_TransactionAdmin_customer_email
    \/ Show_TransactionAdmin_payment_amount
    \/ Show_TransactionAdmin_payment_method
    \/ Show_TransactionAdmin_date_paid
    \/ Show_TransactionAdmin_products
    \/ Show_TransactionAdmin_status

Spec == Init /\ [][Next]_vars

----------------------------------------------------------------------------
(* Vocabulary of the properties *)

Called(admin, helper) == ret.admin = admin /\ ret.helper = helper
IsHelperCall == ret.helper \notin {"", "has_change_permission"}
IsEmptyStr(v) == v.t = "str" /\ Len(v.s) = 0
IsStr(v, chars) == v.t = "str" /\ v.s = chars

HasRecord == obj.t = "obj"
HasData == HasRecord /\ Truthy(obj.data)
HasDictData == HasData /\ obj.data.t = "dict"
\* The record is None, or its data payload is None or empty.
NoData == ~HasData

Has(v, k) == v.t = "dict" /\ k \in DOMAIN v.d
\* The value under key k of the data payload, Absent when there is none.
Sub(k) == IF HasDictData /\ Has(obj.data, k) THEN obj.data.d[k] ELSE Absent
\* Absent, null or empty.
Missing(v) == v.t \in {"absent", "None"} \/ (v.t = "dict" /\ DOMAIN v.d = {})
HasBoth(v, k1, k2) == Has(v, k1) /\ Has(v, k2)

\* The record with every key of its data payload but k removed.
OnlyKey(k) ==
    IF HasDictData
    THEN [obj EXCEPT !.data = PyDict([x \in DOMAIN obj.data.d \cap {k} |-> obj.data.d[x]])]
    ELSE obj

----------------------------------------------------------------------------
\* C1: every display helper returns "" whenever the record is None or its
\* data payload is None or empty.  (customer_email reads the customer
\* relation and not the payload; for it only the None record is taken.)
C1_EmptyWhenNoData ==
    (IsHelperCall /\ (~HasRecord \/ (NoData /\ ret.helper # "customer_email")))
        => IsEmptyStr(ret.value)

----------------------------------------------------------------------------
C2_Malformed ==
    /\ HasDictData
    /\ CASE ret.helper \in {"billing_cycle", "trial_period"} ->
              /\ Truthy(Sub(ret.helper))
              /\ ~HasBoth(Sub(ret.helper), "frequency", "interval")
         [] ret.helper = "unit_price" ->
              /\ Truthy(Sub("unit_price"))
              /\ \/ ~HasBoth(Sub("unit_price"), "amount", "currency_code")
                 \/ IsRaise(int(Sub("unit_price").d["amount"]))
         [] ret.helper = "products" ->
              /\ Sub("items").t = "list"
              /\ \E i \in 1..Len(Sub("items").l) :
                    \/ ~Has(Sub("items").l[i], "price")
                    \/ ~Has(Sub("items").l[i].d["price"], "product_id")
         [] ret.helper \in {"payment_method", "date_paid"} ->
              /\ Sub("payments").t = "list"
              /\ Len(Sub("payments").l) = 0
         [] OTHER -> FALSE

\* C2: a helper called on a record whose non-empty data has a missing or
\* malformed nested key raises nothing and returns "".
C2_MalformedGivesEmpty == (IsHelperCall /\ C2_Malformed) => IsEmptyStr(ret.value)

----------------------------------------------------------------------------
\* C3: has_change_permission of every admin class returns False when
\* ADMIN_READONLY is true and True when it is false.
C3_ReadonlyToggle ==
    ret.helper = "has_change_permission" => (ret.value.t = "bool" /\ ret.value.b = ~ADMIN_READONLY)

----------------------------------------------------------------------------
C4_Called == Called("TransactionAdmin", "payment_amount") /\ HasData

C4_Total ==
    IF Has(Sub("details"), "totals") /\ Has(Sub("details").d["totals"], "total")
    THEN Sub("details").d["totals"].d["total"]
    ELSE Absent

\* n minor units are n div 100 whole units and n mod 100 hundredths.
C4_IsHundredth(v, n) == v.t = "float" /\ v.c \div 100 = n \div 100 /\ v.c % 100 = n % 100

\* A decimal-integer string or an integer.
C4_IntegerLiteral(x) == x.t = "int" \/ (x.t = "str" /\ ~IsRaise(IntOfStr(x.s)))

\* C4 as stated: payment_amount returns n / 100 for a total that is a
\* decimal-integer string or an integer of n minor units, and "" whenever
\* details, totals or total is missing or total is not an integer literal.
C4_OnlyIntegerLiterals ==
    C4_Called =>
        IF C4_IntegerLiteral(C4_Total)
        THEN C4_IsHundredth(ret.value, int(C4_Total).i)
        ELSE IsEmptyStr(ret.value)

\* The totals int() converts: an integer literal, a boolean (1 or 0) or a
\* float (truncated toward zero).
C4_Convertible(x) == C4_IntegerLiteral(x) \/ x.t \in {"bool", "float"}

C4_Minor(x) ==
    CASE x.t = "bool" -> IF x.b THEN 1 ELSE 0
      [] x.t = "float" -> IF x.c >= 0 THEN x.c \div 100 ELSE 0 - ((0 - x.c) \div 100)
      [] OTHER -> int(x).i

\* C4 (amended): payment_amount returns n / 100 for a total that is an
\* integer literal, a boolean or a float, n being the integer int() makes of
\* it ("1999" yields 19.99), and "" when details, totals or total is missing
\* or total is anything else.
C4_PaymentAmount ==
    C4_Called =>
        /\ IF C4_Convertible(C4_Total)
           THEN C4_IsHundredth(ret.value, C4_Minor(C4_Total))
           ELSE IsEmptyStr(ret.value)
        /\ (C4_Total = S_1999) => (ret.value.t = "float" /\ ret.value.c = 1999)

C4_Witness == C4_Called /\ C4_Total = S_1999 /\ ret.value = PyFloat(1999)

----------------------------------------------------------------------------
C5_Frame ==
    /\ obj' = obj
    /\ model' = model
    /\ Product_objects' = Product_objects
    /\ ADMIN_READONLY' = ADMIN_READONLY

C5_SameAnswer ==
    (first.helper # "" /\ ret'.admin = first.admin /\ ret'.helper = first.helper)
        => ret'.value = first.value

\* C5: no helper and no has_change_permission call changes a record's data,
\* its customer, the stored products or ADMIN_READONLY, and a helper called
\* again returns what it returned before, whatever ran in between.
C5_SideEffectFree == [][C5_Frame /\ C5_SameAnswer]_vars

C5_Witness ==
    /\ HasData
    /\ first.helper = "products" /\ IsStr(first.value, ProductName(1).s)
    /\ ret.helper = "status"

----------------------------------------------------------------------------
C6_Package == IF "unfold" \in INSTALLED_APPS THEN "unfold.admin" ELSE "django.contrib.admin"

\* C6: once the module is imported, ModelAdmin, StackedInline and
\* TabularInline all come from unfold.admin when "unfold" is installed and
\* all from django.contrib.admin otherwise, and each of the seven admin
\* classes overrides the JSONField widget with ADMIN_JSON_EDITOR_WIDGET.
C6_OneImplementation ==
    loaded =>
        /\ ModelAdmin = C6_Package \o ".ModelAdmin"
        /\ StackedInline = C6_Package \o ".StackedInline"
        /\ TabularInline = C6_Package \o ".TabularInline"
        /\ DOMAIN formfield_overrides = AdminClasses
        /\ Cardinality(AdminClasses) = 7
        /\ \A cls \in AdminClasses :
              /\ DOMAIN formfield_overrides[cls] = {"JSONField"}
              /\ formfield_overrides[cls]["JSONField"]["widget"] = ADMIN_JSON_EDITOR_WIDGET

C6_Witness == loaded /\ "unfold" \in INSTALLED_APPS /\ TabularInline = "unfold.admin.TabularInline"

----------------------------------------------------------------------------
C7_Period(k) ==
    (Called("PriceAdmin", k) /\ (HasDictData \/ NoData)) =>
        /\ HasBoth(Sub(k), "frequency", "interval") =>
              IsStr(ret.value, str(Sub(k).d["frequency"]) \o <<" ">> \o str(Sub(k).d["interval"]))
        /\ Missing(Sub(k)) => IsEmptyStr(ret.value)
        /\ (HasBoth(Sub(k), "frequency", "interval") \/ Missing(Sub(k))) =>
              ret.value = (IF k = "billing_cycle" THEN PriceAdmin_billing_cycle(OnlyKey(k))
                           ELSE PriceAdmin_trial_period(OnlyKey(k)))

\* C7: billing_cycle and trial_period each return "<frequency> <interval>"
\* of their own sub-object when it has both keys, "" when it is absent, null
\* or empty, and the same whatever the other keys of the price hold.
C7_PeriodFormat ==
    /\ C7_Period("billing_cycle")
    /\ C7_Period("trial_period")
    /\ (Called("PriceAdmin", "billing_cycle")
          /\ Sub("billing_cycle") = PyDict(("frequency" :> PyInt(1)) @@ ("interval" :> S_month)))
       => IsStr(ret.value, <<"1", " ", "m", "o", "n", "t", "h">>)

C7_Witness ==
    /\ Called("PriceAdmin", "trial_period")
    /\ HasBoth(Sub("billing_cycle"), "frequency", "interval")
    /\ Sub("unit_price") # Absent
    /\ IsStr(ret.value, <<"1", "4", " ", "d", "a", "y">>)

----------------------------------------------------------------------------
C8_IntegerValued(x) == x.t = "int" \/ (x.t = "str" /\ ~IsRaise(IntOfStr(x.s)))

\* C8: unit_price returns "<n/100> <currency_code>" for an integer-valued
\* amount of n minor units, and "" when unit_price is absent, null or empty.
C8_UnitPrice ==
    (Called("PriceAdmin", "unit_price") /\ (HasDictData \/ NoData)) =>
        /\ ( /\ HasBoth(Sub("unit_price"), "amount", "currency_code")
             /\ C8_IntegerValued(Sub("unit_price").d["amount"])
             /\ Sub("unit_price").d["currency_code"].t = "str" )
           => IsStr(ret.value, FloatChars(int(Sub("unit_price").d["amount"]).i)
                               \o <<" ">> \o Sub("unit_price").d["currency_code"].s)
        /\ Missing(Sub("unit_price")) => IsEmptyStr(ret.value)
        /\ Sub("unit_price") = PyDict(("amount" :> S_1999) @@ ("currency_code" :> S_USD))
           => IsStr(ret.value, <<"1", "9", ".", "9", "9", " ", "U", "S", "D">>)
        /\ Sub("unit_price") = PyDict(("amount" :> PyInt(120)) @@ ("currency_code" :> S_EUR))
           => IsStr(ret.value, <<"1", ".", "2", " ", "E", "U", "R">>)

C8_Witness ==
    /\ Called("PriceAdmin", "unit_price")
    /\ Sub("unit_price") = PyDict(("amount" :> S_1999) @@ ("currency_code" :> S_USD))
    /\ IsStr(ret.value, <<"1", "9", ".", "9", "9", " ", "U", "S", "D">>)

----------------------------------------------------------------------------
C9_HasFirst == Sub("payments").t = "list" /\ Len(Sub("payments").l) > 0
C9_FirstEntry == Sub("payments").l[1]
C9_Card ==
    IF Has(C9_FirstEntry, "method_details") /\ Has(C9_FirstEntry.d["method_details"], "card")
    THEN C9_FirstEntry.d["method_details"].d["card"]
    ELSE Absent

\* The transaction with every payment after the first dropped.
C9_FirstOnly == [obj EXCEPT !.data = PyDict(("payments" :> PyList(<<C9_FirstEntry>>)) @@ obj.data.d)]

\* C9: payment_method is "<type> <last4>" of the card of payments[0] and
\* date_paid is captured_at of payments[0]; later payments change neither;
\* both are "" when payments is missing or empty or the first entry lacks
\* the keys; neither raises.
C9_FirstPayment ==
    /\ Called("TransactionAdmin", "payment_method") =>
          /\ ~IsRaise(ret.value)
          /\ IF C9_HasFirst
             THEN /\ IF HasBoth(C9_Card, "type", "last4")
                     THEN IsStr(ret.value, C9_Card.d["type"].s \o <<" ">> \o C9_Card.d["last4"].s)
                     ELSE IsEmptyStr(ret.value)
                  /\ ret.value = TransactionAdmin_payment_method(C9_FirstOnly)
             ELSE IsEmptyStr(ret.value)
    /\ Called("TransactionAdmin", "date_paid") =>
          /\ ~IsRaise(ret.value)
          /\ IF C9_HasFirst
             THEN /\ IF Has(C9_FirstEntry, "captured_at")
                     THEN ret.value = C9_FirstEntry.d["captured_at"]
                     ELSE IsEmptyStr(ret.value)
                  /\ ret.value = TransactionAdmin_date_paid(C9_FirstOnly)
             ELSE IsEmptyStr(ret.value)

C9_Witness ==
    /\ Called("TransactionAdmin", "payment_method")
    /\ C9_HasFirst
    /\ Len(Sub("payments").l) = 2
    /\ Sub("payments").l[2] # Sub("payments").l[1]
    /\ Has(Sub("payments").l[2], "captured_at")
    /\ IsStr(ret.value, <<"v", "i", "s", "a", " ", "4", "2", "4", "2">>)

----------------------------------------------------------------------------
\* The ids that occur as price.product_id of some entry of data["items"].
C10_Referenced ==
    IF Sub("items").t = "list"
    THEN { Sub("items").l[i].d["price"].d["product_id"] :
             i \in { j \in 1..Len(Sub("items").l) :
                       /\ Has(Sub("items").l[j], "price")
                       /\ Has(Sub("items").l[j].d["price"], "product_id") } }
    ELSE {}

C10_Named == SelectSeq(Product_objects, LAMBDA p : p.id \in C10_Referenced)

\* C10: for a transaction with non-empty data, products returns the names,
\* joined by ", ", of exactly the stored Product rows whose id is the
\* price.product_id of some item.
C10_ProductNames ==
    (Called("TransactionAdmin", "products") /\ HasDictData) =>
        IsStr(ret.value, Join([i \in 1..Len(C10_Named) |-> C10_Named[i].name]))

====
